---------------------------- MODULE Spec2Model ----------------------------
(***************************************************************************)
(* A model of app.py, the product price comparison tool: column            *)
(* auto-detection (norm, best_match_column, pick_sheet_and_columns), price *)
(* coercion and cleaning (coerce_price, clean_prices), reconciliation and  *)
(* report assembly (make_report) and the "Run Comparison" handler.         *)
(*                                                                         *)
(* Text is a sequence of one-character strings, so that the character      *)
(* level operations of the code (strip, lower, re.sub, rsplit, "in") are   *)
(* computed and not assumed.  A number is a record [n, d] standing for the *)
(* decimal fraction n / d with d a power of ten; arithmetic on it is exact *)
(* (the code uses binary floating point: results that differ only by float *)
(* rounding are outside this model).                                       *)
(***************************************************************************)
EXTENDS Integers, Sequences, FiniteSets, TLC

VARIABLES
    marlin_file,    \* st.file_uploader(key="marlin"): a workbook or NoFile
    website_file,   \* st.file_uploader(key="website"): a workbook or NoFile
    pc,             \* position of the script inside "if run:"
    steps,          \* the pipeline calls made so far in the current run
    m_raw,          \* table returned by pick_sheet_and_columns(marlin_file)
    w_raw,          \* table returned by pick_sheet_and_columns(website_file)
    meta_m,         \* detection details returned with m_raw
    meta_w,         \* detection details returned with w_raw
    m,              \* clean_prices(m_raw)
    w,              \* clean_prices(w_raw)
    report_bytes,   \* make_report(...) once computed
    download,       \* data offered by the "Download Comparison Report" button
    error,          \* text passed to st.error in the current run
    fn,             \* function applied to `args` (the function level specifications)
    args,           \* its arguments
    ret             \* its result once it has returned

vars == << marlin_file, website_file, pc, steps, m_raw, w_raw, meta_m, meta_w,
           m, w, report_bytes, download, error, fn, args, ret >>

-----------------------------------------------------------------------------
(* Characters and text.                                                    *)

LowerLetters ==
    << "a","b","c","d","e","f","g","h","i","j","k","l","m",
       "n","o","p","q","r","s","t","u","v","w","x","y","z" >>
UpperLetters ==
    << "A","B","C","D","E","F","G","H","I","J","K","L","M",
       "N","O","P","Q","R","S","T","U","V","W","X","Y","Z" >>
DigitChars == << "0","1","2","3","4","5","6","7","8","9" >>

Range(s) == { s[i] : i \in DOMAIN s }
Index(seq, c) == CHOOSE i \in DOMAIN seq : seq[i] = c

IsDigit(c) == c \in Range(DigitChars)
IsLower(c) == c \in Range(LowerLetters)
IsUpper(c) == c \in Range(UpperLetters)
IsSpace(c) == c = " "

\* ord(c) for the characters above
Ord(c) ==
    IF IsDigit(c) THEN 47 + Index(DigitChars, c)
    ELSE IF IsUpper(c) THEN 64 + Index(UpperLetters, c)
    ELSE IF IsLower(c) THEN 96 + Index(LowerLetters, c)
    ELSE CASE c = " " -> 32 [] c = "$" -> 36 [] c = "(" -> 40 [] c = ")" -> 41
           [] c = "," -> 44 [] c = "-" -> 45 [] c = "." -> 46 [] c = ":" -> 58
           [] c = "_" -> 95

\* str.lower() on one character
LowerChar(c) == IF IsUpper(c) THEN LowerLetters[Index(UpperLetters, c)] ELSE c
Lower(s) == [ i \in DOMAIN s |-> LowerChar(s[i]) ]

RECURSIVE LStrip(_)
LStrip(s) == IF s # << >> /\ IsSpace(Head(s)) THEN LStrip(Tail(s)) ELSE s
RECURSIVE RStrip(_)
RStrip(s) ==
    IF s # << >> /\ IsSpace(s[Len(s)]) THEN RStrip(SubSeq(s, 1, Len(s) - 1)) ELSE s
\* str.strip()
Strip(s) == RStrip(LStrip(s))

\* re.sub(r"[^...]", "", s), the deletion of every character outside a
\* class, is SelectSeq(s, InClass) below.

\* "sub in s" for texts
Contains(s, sub) ==
    \E i \in 1 .. (Len(s) - Len(sub) + 1) : SubSeq(s, i, i + Len(sub) - 1) = sub

\* s.startswith(prefix)
StartsWith(s, prefix) ==
    Len(s) >= Len(prefix) /\ SubSeq(s, 1, Len(prefix)) = prefix

\* s.count(c) for a character c
Count(s, c) == Cardinality({ i \in DOMAIN s : s[i] = c })

\* s < t in Python's string order
RECURSIVE LexLess(_, _)
LexLess(s, t) ==
    IF t = << >> THEN FALSE
    ELSE IF s = << >> THEN TRUE
    ELSE IF Ord(Head(s)) # Ord(Head(t)) THEN Ord(Head(s)) < Ord(Head(t))
    ELSE LexLess(Tail(s), Tail(t))

IsAlnumLower(c) == IsLower(c) \/ IsDigit(c)

norm(s) == SelectSeq(Lower(Strip(s)), IsAlnumLower)

-----------------------------------------------------------------------------
(* Missing values.  None stands for a missing text (an empty cell read by  *)
(* read_excel, the None of best_match_column); NaN for a missing number    *)
(* (pd.NA, NaN).  Neither is a text of one-character strings or a number.  *)

None == << "None" >>
NaN == [ n |-> 0, d |-> 0 ]
IsNone(x) == x = None
\* pd.isna on a price
isna(x) == x.d = 0

-----------------------------------------------------------------------------
(* Vocabulary.                                                             *)

CODE_CANDIDATES ==
    << << "v", "a", "r", "i", "a", "n", "t", "c", "o", "d", "e" >>,
       << "v", "a", "r", "i", "a", "n", "t", "_", "c", "o", "d", "e" >>,
       << "v", "a", "r", "i", "a", "n", "t", " ", "s", "k", "u" >>,
       << "v", "a", "r", "i", "a", "n", "t", "s", "k", "u" >>,
       << "s", "k", "u" >>,
       << "p", "r", "o", "d", "u", "c", "t", "c", "o", "d", "e" >>,
       << "p", "r", "o", "d", "u", "c", "t", "_", "c", "o", "d", "e" >>,
       << "i", "t", "e", "m", "c", "o", "d", "e" >>,
       << "i", "t", "e", "m", "_", "c", "o", "d", "e" >>,
       << "c", "o", "d", "e" >>,
       << "p", "a", "r", "t", "n", "u", "m", "b", "e", "r" >>,
       << "p", "a", "r", "t", "n", "o" >> >>

PRICE_CANDIDATES_PRIMARY ==
    << << "v", "a", "r", "i", "a", "n", "t", "p", "r", "i", "c", "e" >>,
       << "p", "r", "i", "c", "e" >>,
       << "w", "e", "b", "p", "r", "i", "c", "e" >>,
       << "w", "e", "b", "s", "i", "t", "e", "p", "r", "i", "c", "e" >>,
       << "r", "e", "t", "a", "i", "l" >>,
       << "r", "r", "p" >>,
       << "s", "e", "l", "l", "p", "r", "i", "c", "e" >>,
       << "s", "e", "l", "l", "i", "n", "g", "p", "r", "i", "c", "e" >>,
       << "l", "i", "s", "t", "p", "r", "i", "c", "e" >> >>

INC_HINTS ==
    << << "i", "n", "c", "g", "s", "t" >>,
       << "i", "n", "c", "l", "g", "s", "t" >>,
       << "i", "n", "c", "l", "_", "g", "s", "t" >>,
       << "i", "n", "c", "_", "g", "s", "t" >> >>

EXC_HINTS ==
    << << "e", "x", "g", "s", "t" >>,
       << "e", "x", "c", "_", "g", "s", "t" >>,
       << "e", "x", "c", "l", "g", "s", "t" >>,
       << "e", "x", "c", "l", "_", "g", "s", "t" >> >>


-----------------------------------------------------------------------------
(* difflib.SequenceMatcher(None, a, b).ratio(), for texts shorter than the *)
(* 200 characters at which difflib's "autojunk" starts.  Positions are     *)
(* 1-based and ranges lo .. hi inclusive.                                  *)

\* length of the block a[i ..] = b[j ..] inside a[.. ahi], b[.. bhi]
RECURSIVE RunLen(_, _, _, _, _, _)
RunLen(a, b, i, j, ahi, bhi) ==
    IF i > ahi \/ j > bhi THEN 0
    ELSE IF a[i] # b[j] THEN 0
    ELSE 1 + RunLen(a, b, i + 1, j + 1, ahi, bhi)

SetMax(S) == CHOOSE x \in S : \A y \in S : y <= x
SetMin(S) == CHOOSE x \in S : \A y \in S : x <= y

\* the longest matching block; of the longest the one starting earliest in
\* a, and of those the one starting earliest in b
find_longest_match(a, b, alo, ahi, blo, bhi) ==
    LET P    == (alo .. ahi) \X (blo .. bhi)
        k    == [ p \in P |-> RunLen(a, b, p[1], p[2], ahi, bhi) ]
        size == SetMax({ k[p] : p \in P })
        i    == SetMin({ p[1] : p \in { q \in P : k[q] = size } })
        j    == SetMin({ p[2] : p \in { q \in P : q[1] = i /\ k[q] = size } })
    IN  [ i |-> i, j |-> j, size |-> size ]

\* the total size of get_matching_blocks(): the longest block, then the
\* same to its left and to its right
RECURSIVE matches(_, _, _, _, _, _)
matches(a, b, alo, ahi, blo, bhi) ==
    IF alo > ahi \/ blo > bhi THEN 0
    ELSE LET x == find_longest_match(a, b, alo, ahi, blo, bhi)
         IN  IF x.size = 0 THEN 0
             ELSE x.size
                  + matches(a, b, alo, x.i - 1, blo, x.j - 1)
                  + matches(a, b, x.i + x.size, ahi, x.j + x.size, bhi)

\* 2.0 * matches / (len(a) + len(b)) as the fraction num / den; 1.0 for two
\* empty texts
ratio(a, b) ==
    IF Len(a) + Len(b) = 0 THEN [ num |-> 1, den |-> 1 ]
    ELSE [ num |-> 2 * matches(a, b, 1, Len(a), 1, Len(b)),
           den |-> Len(a) + Len(b) ]

FracLess(x, y) == x.num * y.den < y.num * x.den

\* max(ratio(ncol, cand) for cand in candidates)
RECURSIVE MaxRatio(_, _, _, _)
MaxRatio(ncol, candidates, i, best) ==
    IF i > Len(candidates) THEN best
    ELSE LET r == ratio(ncol, candidates[i])
         IN  MaxRatio(ncol, candidates, i + 1, IF FracLess(best, r) THEN r ELSE best)

-----------------------------------------------------------------------------
(* best_match_column.  A score is kept exactly, in hundredths: `base` is   *)
(* 100 per contained candidate plus the hint bonuses, `fuzz` the best      *)
(* ratio as a fraction, and the score is base/100 + 0.4 * fuzz.            *)

CONTAIN_SCORE == 100
FUZZ_WEIGHT == 40
INC_BIAS == 25
EXC_BIAS == 10
MIN_SCORE == 60

\* the numerator of a score over the denominator 100 * fuzz.den
ScoreNum(s) == s.base * s.fuzz.den + FUZZ_WEIGHT * s.fuzz.num
ScoreLess(s, t) == ScoreNum(s) * t.fuzz.den < ScoreNum(t) * s.fuzz.den
ScoreAtLeastMin(s) == ScoreNum(s) >= MIN_SCORE * s.fuzz.den

\* any(h in ncol for h in hints); an absent (None) hint list is << >>
AnyHint(ncol, hints) == \E i \in DOMAIN hints : Contains(ncol, hints[i])

\* the score the loop body gives one column
ColumnScore(col, candidates, extra_bias_inc, extra_bias_exc) ==
    LET ncol == norm(col)
        hits == Cardinality({ i \in DOMAIN candidates : Contains(ncol, candidates[i]) })
    IN  [ base |-> CONTAIN_SCORE * hits
                   + (IF AnyHint(ncol, extra_bias_inc) THEN INC_BIAS ELSE 0)
                   + (IF AnyHint(ncol, extra_bias_exc) THEN EXC_BIAS ELSE 0),
          fuzz |-> MaxRatio(ncol, candidates, 1, [ num |-> 0, den |-> 1 ]) ]

\* the keys of {c: ... for c in columns}: each name once, in first-seen order
RECURSIVE DictKeys(_)
DictKeys(columns) ==
    IF columns = << >> THEN << >>
    ELSE LET rest == DictKeys(SubSeq(columns, 1, Len(columns) - 1))
             last == columns[Len(columns)]
         IN  IF last \in Range(rest) THEN rest ELSE Append(rest, last)

\* max(scores, key=...): the running best changes only on a strictly
\* greater score, so the first of the highest scoring keys is returned
RECURSIVE PyMaxLast(_, _, _, _)
PyMaxLast(keys, score, i, best) ==
    IF i > Len(keys) THEN best
    ELSE PyMaxLast(keys, score, i + 1,
                   IF ScoreLess(score[keys[i]], score[best]) THEN best ELSE keys[i])

RECURSIVE PyMax(_, _, _, _)
PyMax(keys, score, i, best) ==
    IF i > Len(keys) THEN best
    ELSE PyMax(keys, score, i + 1,
               IF ScoreLess(score[best], score[keys[i]]) THEN keys[i] ELSE best)

best_match_column(columns, candidates, extra_bias_inc, extra_bias_exc) ==
    IF columns = << >> THEN None
    ELSE LET keys   == DictKeys(columns)
             scores == [ c \in Range(keys) |->
                           ColumnScore(c, candidates, extra_bias_inc, extra_bias_exc) ]
             best   == PyMax(keys, scores, 2, keys[1])
         IN  IF ScoreAtLeastMin(scores[best]) THEN best ELSE None

-----------------------------------------------------------------------------
(* pick_sheet_and_columns.  A workbook is the sequence of its sheets, a    *)
(* sheet [name, columns, rows] with every row a sequence of cells aligned  *)
(* with `columns`; a cell is a text or None (dtype=str).  read_excel gives *)
(* the columns of one sheet distinct names.                                *)

VARIANT_CODE == << "V", "a", "r", "i", "a", "n", "t", " ", "C", "o", "d", "e" >>
VARIANT_PRICE == << "V", "a", "r", "i", "a", "n", "t", " ", "P", "r", "i", "c", "e" >>
UNNAMED == << "U", "n", "n", "a", "m", "e", "d" >>

\* df.empty
IsEmptySheet(df) == Len(df.rows) = 0 \/ Len(df.columns) = 0

\* the positions kept by df.loc[:, ~columns.str.contains("^Unnamed")]
KeptColumns(df) ==
    SelectSeq([ i \in DOMAIN df.columns |-> i ],
              LAMBDA i : ~ StartsWith(df.columns[i], UNNAMED))

\* df[[columns[idx[1]], columns[idx[2]], ...]]
Project(df, idx) ==
    [ name    |-> df.name,
      columns |-> [ k \in DOMAIN idx |-> df.columns[idx[k]] ],
      rows    |-> [ r \in DOMAIN df.rows |-> [ k \in DOMAIN idx |-> df.rows[r][idx[k]] ] ] ]

\* truth value of a column name or None
Truthy(col) == col # None /\ col # << >>

\* twice the score of a sheet: 1 for each column found, 0.5 more for both
SheetScore2(code_col, price_col) ==
    (IF Truthy(code_col) THEN 2 ELSE 0) + (IF Truthy(price_col) THEN 2 ELSE 0)
    + (IF Truthy(code_col) /\ Truthy(price_col) THEN 1 ELSE 0)

KeepBestLast(acc, sheet_name, df, code_col, price_col) ==
    IF SheetScore2(code_col, price_col) >= acc.best_score2
    THEN [ found |-> TRUE, df |-> df, code_col |-> code_col,
           price_col |-> price_col, sheet_name |-> sheet_name,
           best_score2 |-> SheetScore2(code_col, price_col) ]
    ELSE acc

\* lines 152-158: the sheet replaces the best one only on a strictly higher
\* score; acc = [found, df, code_col, price_col, sheet_name, best_score2]
KeepBest(acc, sheet_name, df, code_col, price_col) ==
    IF SheetScore2(code_col, price_col) > acc.best_score2
    THEN [ found |-> TRUE, df |-> df, code_col |-> code_col,
           price_col |-> price_col, sheet_name |-> sheet_name,
           best_score2 |-> SheetScore2(code_col, price_col) ]
    ELSE acc

\* lines 141-149: the two detections on the columns left
Detect(acc, df) ==
    KeepBest(acc, df.name, df,
             best_match_column(df.columns, CODE_CANDIDATES, << >>, << >>),
             best_match_column(df.columns, PRICE_CANDIDATES_PRIMARY,
                               INC_HINTS, EXC_HINTS))

\* one pass of the loop over book.items()
ScanSheet(acc, sheet) ==
    IF IsEmptySheet(sheet) THEN acc
    ELSE Detect(acc, Project(sheet, KeptColumns(sheet)))

RECURSIVE ScanBook(_, _, _)
ScanBook(book, i, acc) ==
    IF i > Len(book) THEN acc ELSE ScanBook(book, i + 1, ScanSheet(acc, book[i]))

NoTable == [ name |-> "", columns |-> << >>, rows |-> << >> ]
NoMeta == [ sheet |-> "", code_col |-> None, price_col |-> None ]

\* position of the column named c
ColumnIndex(df, c) == CHOOSE i \in DOMAIN df.columns : df.columns[i] = c

\* sub.rename(columns={code_col: "Variant Code", price_col: "Variant Price"}):
\* a dict literal keeps the last value given for a key
Rename(name, code_col, price_col) ==
    IF name = price_col THEN VARIANT_PRICE
    ELSE IF name = code_col THEN VARIANT_CODE
    ELSE name

\* lines 171-175: the two columns of the winning sheet, renamed
Subset(df, code_col, price_col) ==
    [ name    |-> df.name,
      columns |-> << Rename(code_col, code_col, price_col),
                     Rename(price_col, code_col, price_col) >>,
      rows    |-> Project(df, << ColumnIndex(df, code_col),
                                 ColumnIndex(df, price_col) >>).rows ]

\* lines 160-175, after the loop; raised is "" on return and the ValueError's
\* message otherwise
Outcome(best) ==
    IF ~ best.found \/ best.best_score2 <= 0
    THEN [ raised |-> "Could not detect suitable columns in any sheet.",
           sub |-> NoTable, meta |-> NoMeta ]
    ELSE IF ~ Truthy(best.code_col) \/ ~ Truthy(best.price_col)
    THEN [ raised |-> "Auto-detection incomplete in sheet",
           sub    |-> NoTable,
           meta   |-> [ sheet |-> best.sheet_name, code_col |-> best.code_col,
                        price_col |-> best.price_col ] ]
    ELSE [ raised |-> "",
           sub    |-> Subset(best.df, best.code_col, best.price_col),
           meta   |-> [ sheet |-> best.sheet_name, code_col |-> best.code_col,
                        price_col |-> best.price_col ] ]

pick_sheet_and_columns(book) ==
    Outcome(ScanBook(book, 1,
                     [ found |-> FALSE, df |-> NoTable, code_col |-> None,
                       price_col |-> None, sheet_name |-> "", best_score2 |-> -2 ]))

-----------------------------------------------------------------------------
(* coerce_price on a cell read with dtype=str: a text or None.  (The       *)
(* isinstance(s, (int, float)) branch needs a numeric cell, which          *)
(* read_excel(dtype=str) never produces.)                                  *)

IsPriceChar(c) == IsDigit(c) \/ c = "." \/ c = "-"
IsNotDot(c) == c # "."

\* int(c) for a digit c
DigitValue(c) == Index(DigitChars, c) - 1

\* the number written by a text of digits (0 for the empty text)
RECURSIVE DigitsValue(_)
DigitsValue(ds) ==
    IF ds = << >> THEN 0
    ELSE 10 * DigitsValue(SubSeq(ds, 1, Len(ds) - 1)) + DigitValue(ds[Len(ds)])

RECURSIVE Pow10(_)
Pow10(k) == IF k = 0 THEN 1 ELSE 10 * Pow10(k - 1)

\* the position of the last "." of a text that has one
LastDot(txt) == SetMax({ i \in DOMAIN txt : txt[i] = "." })

\* float(txt) for a text of digits, "." and "-": an optional leading "-",
\* then digits with at most one "." and at least one digit; NaN stands for
\* the ValueError of any other text
ParseFloat(txt) ==
    LET minus == txt # << >> /\ Head(txt) = "-"
        body  == IF minus THEN Tail(txt) ELSE txt
        dots  == Count(body, ".")
        ds    == SelectSeq(body, IsDigit)
    IN  IF Count(body, "-") > 0 \/ dots > 1 \/ ds = << >> THEN NaN
        ELSE LET frac == IF dots = 1 THEN Len(body) - LastDot(body) ELSE 0
                 val  == DigitsValue(ds)
             IN  [ n |-> IF minus THEN - val ELSE val, d |-> Pow10(frac) ]

Neg(x) == IF isna(x) THEN x ELSE [ x EXCEPT !.n = - x.n ]

coerce_price_first_dot(s) ==
    IF IsNone(s) THEN NaN
    ELSE LET neg  == Contains(s, << "(" >>) /\ Contains(s, << ")" >>)
             kept == SelectSeq(s, IsPriceChar)
             txt  == IF Count(kept, ".") > 1
                     THEN LET p     == SetMin({ i \in DOMAIN kept : kept[i] = "." })
                              left  == SubSeq(kept, 1, p - 1)
                              right == SubSeq(kept, p + 1, Len(kept))
                          IN  left \o << "." >> \o SelectSeq(right, IsNotDot)
                     ELSE kept
             val  == ParseFloat(txt)
         IN  IF neg THEN Neg(val) ELSE val

coerce_price(s) ==
    IF IsNone(s) THEN NaN
    ELSE LET neg  == Contains(s, << "(" >>) /\ Contains(s, << ")" >>)
             kept == SelectSeq(s, IsPriceChar)
             txt  == IF Count(kept, ".") > 1
                     THEN LET p     == LastDot(kept)
                              left  == SubSeq(kept, 1, p - 1)
                              right == SubSeq(kept, p + 1, Len(kept))
                          IN  SelectSeq(left, IsNotDot) \o << "." >> \o right
                     ELSE kept
             val  == ParseFloat(txt)
         IN  IF neg THEN Neg(val) ELSE val

-----------------------------------------------------------------------------
(* clean_prices.  A table is [name, columns, rows].                        *)

NAN_TEXT == << "n", "a", "n" >>

\* Series.astype(str): str() of every value, the missing one included
AsTypeStr(cell) == IF IsNone(cell) THEN NAN_TEXT ELSE cell

HasColumn(df, c) == \E i \in DOMAIN df.columns : df.columns[i] = c

\* positions of the rows kept by dropna(subset=[col]), col at position ci
DropNa(rows, ci) == SelectSeq(rows, LAMBDA r : ~ IsNone(r[ci]))

\* drop_duplicates(subset=[col], keep="last"): a row stays when no later
\* row has its value in col
DropDuplicatesLast(rows, ci) ==
    LET keep == SelectSeq([ i \in DOMAIN rows |-> i ],
                          LAMBDA i : \A j \in (i + 1) .. Len(rows) : rows[j][ci] # rows[i][ci])
    IN  [ k \in DOMAIN keep |-> rows[keep[k]] ]

\* raised is "" on return and names the KeyError of a missing column otherwise
clean_prices(df) ==
    IF ~ HasColumn(df, VARIANT_CODE) THEN [ raised |-> "KeyError: 'Variant Code'", out |-> NoTable ]
    ELSE IF ~ HasColumn(df, VARIANT_PRICE)
    THEN [ raised |-> "KeyError: 'Variant Price'", out |-> NoTable ]
    ELSE LET ci    == ColumnIndex(df, VARIANT_CODE)
             pi    == ColumnIndex(df, VARIANT_PRICE)
             codes == [ r \in DOMAIN df.rows |->
                          [ df.rows[r] EXCEPT ![ci] = Strip(AsTypeStr(df.rows[r][ci])) ] ]
             both  == [ r \in DOMAIN codes |->
                          [ codes[r] EXCEPT ![pi] = coerce_price(codes[r][pi]) ] ]
         IN  [ raised |-> "",
               out    |-> [ df EXCEPT !.rows = DropDuplicatesLast(DropNa(both, ci), ci) ] ]

-----------------------------------------------------------------------------
(* make_report.  A merged row is [code, website, marlin, difference,       *)
(* price_match, comparison]: the columns "Variant Code",                   *)
(* "Variant Price_Website", "Variant Price_Marlin", "Price Difference",    *)
(* "Price Match" and "Comparison".                                         *)

\* a - b on prices, missing when either is
Sub(a, b) ==
    IF isna(a) \/ isna(b) THEN NaN
    ELSE [ n |-> a.n * b.d - b.n * a.d, d |-> a.d * b.d ]

Abs(i) == IF i < 0 THEN - i ELSE i

\* abs(a - b) <= tolerance, a and b present
WithinTolerance(a, b, tolerance) ==
    Abs(Sub(a, b).n) * tolerance.d <= tolerance.n * Sub(a, b).d

\* (a - b) > 0, a and b present
Positive(x) == x.n > 0

\* the values of column ci, in row order
ColumnValues(df, ci) == [ r \in DOMAIN df.rows |-> df.rows[r][ci] ]

\* the texts of a set in Python's string order
RECURSIVE Sorted(_)
Sorted(S) ==
    IF S = { } THEN << >>
    ELSE LET least == CHOOSE x \in S : \A y \in S : ~ LexLess(y, x)
         IN  << least >> \o Sorted(S \ { least })

RECURSIVE Flatten(_)
Flatten(ss) == IF ss = << >> THEN << >> ELSE Head(ss) \o Flatten(Tail(ss))

\* how="left": the keys and rows of the website frame only
MergeLeft(website_df, marlin_df) ==
    LET wc == ColumnIndex(website_df, VARIANT_CODE)
        wp == ColumnIndex(website_df, VARIANT_PRICE)
        mc == ColumnIndex(marlin_df, VARIANT_CODE)
        mp == ColumnIndex(marlin_df, VARIANT_PRICE)
        mrows(k) == SelectSeq(marlin_df.rows, LAMBDA r : r[mc] = k)
        pair(k, a, b) == [ code |-> k, website |-> a, marlin |-> b ]
        group(r) ==
            IF mrows(r[wc]) = << >> THEN << pair(r[wc], r[wp], NaN) >>
            ELSE [ j \in DOMAIN mrows(r[wc]) |-> pair(r[wc], r[wp], mrows(r[wc])[j][mp]) ]
    IN  Flatten([ i \in DOMAIN website_df.rows |-> group(website_df.rows[i]) ])

\* website_df.merge(marlin_df, on="Variant Code", how="outer"): the keys of
\* both frames in sorted order; for a key in both, every pairing of its
\* website rows with its marlin rows; for a key in one, its rows with the
\* other price missing
Merge(website_df, marlin_df) ==
    LET wc   == ColumnIndex(website_df, VARIANT_CODE)
        wp   == ColumnIndex(website_df, VARIANT_PRICE)
        mc   == ColumnIndex(marlin_df, VARIANT_CODE)
        mp   == ColumnIndex(marlin_df, VARIANT_PRICE)
        keys == Sorted(Range(ColumnValues(website_df, wc))
                       \cup Range(ColumnValues(marlin_df, mc)))
        wrows(k) == SelectSeq(website_df.rows, LAMBDA r : r[wc] = k)
        mrows(k) == SelectSeq(marlin_df.rows, LAMBDA r : r[mc] = k)
        pair(k, a, b) == [ code |-> k, website |-> a, marlin |-> b ]
        group(k) ==
            IF wrows(k) = << >>
            THEN [ j \in DOMAIN mrows(k) |-> pair(k, NaN, mrows(k)[j][mp]) ]
            ELSE IF mrows(k) = << >>
            THEN [ i \in DOMAIN wrows(k) |-> pair(k, wrows(k)[i][wp], NaN) ]
            ELSE Flatten([ i \in DOMAIN wrows(k) |->
                             [ j \in DOMAIN mrows(k) |->
                                 pair(k, wrows(k)[i][wp], mrows(k)[j][mp]) ] ])
    IN  Flatten([ i \in DOMAIN keys |-> group(keys[i]) ])

price_match(row, tolerance) ==
    LET a == row.website
        b == row.marlin
    IN  IF isna(a) \/ isna(b) THEN "N/A"
        ELSE IF WithinTolerance(a, b, tolerance) THEN "Match" ELSE "Mismatch"

compare_label_strict(row, tolerance) ==
    LET a == row.website
        b == row.marlin
    IN  IF isna(a) /\ ~ isna(b) THEN "Only in Marlin"
        ELSE IF isna(b) /\ ~ isna(a) THEN "Only in Website"
        ELSE IF isna(a) /\ isna(b) THEN "Missing in both"
        ELSE IF Abs(Sub(a, b).n) * tolerance.d < tolerance.n * Sub(a, b).d
        THEN "Equal (within tolerance)"
        ELSE IF Positive(Sub(a, b)) THEN "Website higher" ELSE "Marlin higher"

compare_label(row, tolerance) ==
    LET a == row.website
        b == row.marlin
    IN  IF isna(a) /\ ~ isna(b) THEN "Only in Marlin"
        ELSE IF isna(b) /\ ~ isna(a) THEN "Only in Website"
        ELSE IF isna(a) /\ isna(b) THEN "Missing in both"
        ELSE IF WithinTolerance(a, b, tolerance) THEN "Equal (within tolerance)"
        ELSE IF Positive(Sub(a, b)) THEN "Website higher" ELSE "Marlin higher"

\* the merged table with its three computed columns
Classified(website_df, marlin_df, tolerance) ==
    LET merged == Merge(website_df, marlin_df)
    IN  [ i \in DOMAIN merged |->
            [ code        |-> merged[i].code,
              website     |-> merged[i].website,
              marlin      |-> merged[i].marlin,
              difference  |-> Sub(merged[i].website, merged[i].marlin),
              price_match |-> price_match(merged[i], tolerance),
              comparison  |-> compare_label(merged[i], tolerance) ] ]

\* the "Only in Website" sheet filtered on "Price Match" == "N/A"
make_report_na_view(marlin_df, website_df, meta_marlin, meta_website, tolerance) ==
    LET merged == Classified(website_df, marlin_df, tolerance)
        IsMatch(r)       == r.price_match = "Match"
        IsMismatch(r)    == r.price_match = "Mismatch"
        IsOnlyWebsite(r) == r.price_match = "N/A"
        IsOnlyMarlin(r)  == r.comparison = "Only in Marlin"
    IN  [ full_data       |-> merged,
          matched         |-> SelectSeq(merged, IsMatch),
          mismatched      |-> SelectSeq(merged, IsMismatch),
          only_in_website |-> SelectSeq(merged, IsOnlyWebsite),
          only_in_marlin  |-> SelectSeq(merged, IsOnlyMarlin),
          summary         |->
            [ marlin_sheet       |-> meta_marlin.sheet,
              marlin_code_col    |-> meta_marlin.code_col,
              marlin_price_col   |-> meta_marlin.price_col,
              website_sheet      |-> meta_website.sheet,
              website_code_col   |-> meta_website.code_col,
              website_price_col  |-> meta_website.price_col,
              total_website_rows |-> Len(website_df.rows),
              total_marlin_rows  |-> Len(marlin_df.rows),
              matches            |-> Len(SelectSeq(merged, IsMatch)),
              mismatches         |-> Len(SelectSeq(merged, IsMismatch)),
              only_in_website    |-> Len(SelectSeq(merged, IsOnlyWebsite)),
              only_in_marlin     |-> Len(SelectSeq(merged, IsOnlyMarlin)) ] ]

\* the sheets written to the workbook, which is the value returned;
\* merged[merged[column] == value] is SelectSeq(merged, Test)
make_report(marlin_df, website_df, meta_marlin, meta_website, tolerance) ==
    LET merged == Classified(website_df, marlin_df, tolerance)
        IsMatch(r)       == r.price_match = "Match"
        IsMismatch(r)    == r.price_match = "Mismatch"
        IsOnlyWebsite(r) == r.comparison = "Only in Website"
        IsOnlyMarlin(r)  == r.comparison = "Only in Marlin"
    IN  [ full_data       |-> merged,
          matched         |-> SelectSeq(merged, IsMatch),
          mismatched      |-> SelectSeq(merged, IsMismatch),
          only_in_website |-> SelectSeq(merged, IsOnlyWebsite),
          only_in_marlin  |-> SelectSeq(merged, IsOnlyMarlin),
          summary         |->
            [ marlin_sheet       |-> meta_marlin.sheet,
              marlin_code_col    |-> meta_marlin.code_col,
              marlin_price_col   |-> meta_marlin.price_col,
              website_sheet      |-> meta_website.sheet,
              website_code_col   |-> meta_website.code_col,
              website_price_col  |-> meta_website.price_col,
              total_website_rows |-> Len(website_df.rows),
              total_marlin_rows  |-> Len(marlin_df.rows),
              matches            |-> Len(SelectSeq(merged, IsMatch)),
              mismatches         |-> Len(SelectSeq(merged, IsMismatch)),
              only_in_website    |-> Len(SelectSeq(merged, IsOnlyWebsite)),
              only_in_marlin     |-> Len(SelectSeq(merged, IsOnlyMarlin)) ] ]

-----------------------------------------------------------------------------
(* Texts used as inputs.                                                   *)

H_VariantCode == << "V", "a", "r", "i", "a", "n", "t", " ", "C", "o", "d", "e" >>
H_VariantPrice == << "V", "a", "r", "i", "a", "n", "t", " ", "P", "r", "i", "c", "e" >>
H_IncGST == << "V", "a", "r", "i", "a", "n", "t", " ", "P", "r", "i", "c", "e", " ", "I", "n", "c", " ", "G", "S", "T" >>
H_ExcGST == << "V", "a", "r", "i", "a", "n", "t", " ", "P", "r", "i", "c", "e", " ", "E", "x", "c", " ", "G", "S", "T" >>
H_SKU == << "S", "K", "U" >>
H_SKUPrice == << "S", "K", "U", " ", "P", "r", "i", "c", "e" >>
H_Name == << "N", "a", "m", "e" >>
H_Description == << "D", "e", "s", "c", "r", "i", "p", "t", "i", "o", "n" >>
H_Qty == << "Q", "t", "y" >>
H_Code == << "C", "o", "d", "e" >>
H_CODE == << "C", "O", "D", "E" >>
H_Unnamed2 == << "U", "n", "n", "a", "m", "e", "d", ":", " ", "2" >>
H_Instructions == << "I", "n", "s", "t", "r", "u", "c", "t", "i", "o", "n", "s" >>
T_A1 == << "A", "1" >>
T_A2 == << "A", "2" >>
T_A3 == << "A", "3" >>
T_10_00 == << "1", "0", ".", "0", "0" >>
T_20_00 == << "2", "0", ".", "0", "0" >>
T_5_00 == << "5", ".", "0", "0" >>
T_9_09 == << "9", ".", "0", "9" >>
T_4_55 == << "4", ".", "5", "5" >>
T_Fill == << "F", "i", "l", "l", " ", "o", "n", "l", "y", " ", "t", "h", "e", "s", "e", " ", "t", "w", "o", " ", "c", "o", "l", "u", "m", "n", "s", "." >>
T_A == << "A" >>
T_A_sp == << "A", " " >>
T_B == << "B" >>
T_1_00 == << "1", ".", "0", "0" >>
T_1_01 == << "1", ".", "0", "1" >>
T_2 == << "2" >>
T_x == << "x" >>
T_Dollar == << "$", "1", ",", "2", "3", "4", ".", "5", "6" >>
T_Paren == << "(", "1", "2", ".", "5", "0", ")" >>
T_TwoDots == << "1", "2", ".", "3", "4", ".", "5", "6" >>

Sheet(name, columns, rows) == [ name |-> name, columns |-> columns, rows |-> rows ]

\* the Marlin and Website lists of the end-to-end scenario
MarlinSheet ==
    Sheet("Prices", << H_VariantCode, H_VariantPrice >>,
          << << T_A1, T_10_00 >>, << T_A2, T_20_00 >> >>)
WebsiteSheet ==
    Sheet("Export", << H_SKU, H_Unnamed2, H_ExcGST, H_IncGST >>,
          << << T_A1, None, T_9_09, T_10_00 >>, << T_A3, None, T_4_55, T_5_00 >> >>)
\* the sheets of the blank template of make_template_bytes
TemplatePrices == Sheet("Prices", << H_VariantCode, H_VariantPrice >>, << >>)
TemplateReadme == Sheet("README", << H_Instructions >>, << << T_Fill >> >>)
\* a sheet with neither column, one with a code column only, and one whose
\* best code column is also its best price column
NamesSheet == Sheet("Sheet1", << H_Name, H_Description >>, << << T_A1, T_A2 >> >>)
CodeOnlySheet == Sheet("Stock", << H_Code, H_Qty >>, << << T_A1, T_2 >> >>)
SkuPriceSheet == Sheet("Combined", << H_SKUPrice, H_Qty >>, << << T_10_00, T_2 >> >>)

\* no upload: file_uploader returns None (a workbook has at least one sheet)
NoFile == << >>

Workbooks ==
    { << MarlinSheet >>, << WebsiteSheet >>, << TemplatePrices, TemplateReadme >>,
      << MarlinSheet, TemplateReadme >>, << NamesSheet >>, << CodeOnlySheet >>,
      << SkuPriceSheet >> }

-----------------------------------------------------------------------------
(* The script below "Run Comparison".  Streamlit runs the script once per  *)
(* interaction; what a run displayed stays until the next run.             *)

\* tolerance=0.01
DEFAULT_TOLERANCE == [ n |-> 1, d |-> 100 ]

NoCall == fn = "" /\ args = << >> /\ ret = << >>

\* a run starts with nothing displayed and no local assigned
FreshLocals ==
    /\ steps' = << >>
    /\ m_raw' = NoTable /\ w_raw' = NoTable
    /\ meta_m' = NoMeta /\ meta_w' = NoMeta
    /\ m' = NoTable /\ w' = NoTable
    /\ report_bytes' = << >>
    /\ download' = << >>

Fresh == FreshLocals /\ error' = ""

\* no file uploaded and no run made
Idle ==
    /\ marlin_file = NoFile /\ website_file = NoFile
    /\ pc = "idle"
    /\ steps = << >>
    /\ m_raw = NoTable /\ w_raw = NoTable
    /\ meta_m = NoMeta /\ meta_w = NoMeta
    /\ m = NoTable /\ w = NoTable
    /\ report_bytes = << >>
    /\ download = << >>
    /\ error = ""

Init == Idle /\ NoCall

\* the user puts a file into, or takes it out of, the Marlin uploader
UploadMarlin(file) ==
    /\ pc = "idle"
    /\ file # marlin_file
    /\ marlin_file' = file
    /\ Fresh
    /\ UNCHANGED << website_file, pc, fn, args, ret >>

UploadWebsite(file) ==
    /\ pc = "idle"
    /\ file # website_file
    /\ website_file' = file
    /\ Fresh
    /\ UNCHANGED << marlin_file, pc, fn, args, ret >>

\* the pipeline started without the check of line 317
PressRunUnchecked ==
    /\ pc = "idle"
    /\ FreshLocals
    /\ error' = ""
    /\ pc' = "detect_marlin"
    /\ UNCHANGED << marlin_file, website_file, fn, args, ret >>

\* the button is pressed: "if run:" down to the start of the try block
PressRun ==
    /\ pc = "idle"
    /\ FreshLocals
    /\ IF marlin_file = NoFile \/ website_file = NoFile
       THEN /\ error' = "Please upload both Excel files to proceed."
            /\ pc' = "idle"
       ELSE /\ error' = ""
            /\ pc' = "detect_marlin"
    /\ UNCHANGED << marlin_file, website_file, fn, args, ret >>

\* what "except Exception as e" displays
Failed(e) ==
    /\ error' = "Comparison failed: " \o e
    /\ pc' = "idle"

\* what the call's outcome r does to the run
DetectedMarlin(r) ==
    IF r.raised # ""
    THEN Failed(r.raised) /\ UNCHANGED << m_raw, meta_m >>
    ELSE /\ m_raw' = r.sub
         /\ meta_m' = r.meta
         /\ pc' = "detect_website"
         /\ UNCHANGED error

\* m_raw, meta_m = pick_sheet_and_columns(marlin_file)
DetectMarlin ==
    /\ pc = "detect_marlin"
    /\ steps' = Append(steps, "pick_sheet_and_columns(marlin_file)")
    /\ DetectedMarlin(pick_sheet_and_columns(marlin_file))
    /\ UNCHANGED << marlin_file, website_file, w_raw, meta_w, m, w, report_bytes,
                    download, fn, args, ret >>

\* what the call's outcome r does to the run
DetectedWebsite(r) ==
    IF r.raised # ""
    THEN Failed(r.raised) /\ UNCHANGED << w_raw, meta_w >>
    ELSE /\ w_raw' = r.sub
         /\ meta_w' = r.meta
         /\ pc' = "clean_marlin"
         /\ UNCHANGED error

\* w_raw, meta_w = pick_sheet_and_columns(website_file)
DetectWebsite ==
    /\ pc = "detect_website"
    /\ steps' = Append(steps, "pick_sheet_and_columns(website_file)")
    /\ DetectedWebsite(pick_sheet_and_columns(website_file))
    /\ UNCHANGED << marlin_file, website_file, m_raw, meta_m, m, w, report_bytes,
                    download, fn, args, ret >>

CleanedMarlin(r) ==
    IF r.raised # ""
    THEN Failed(r.raised) /\ UNCHANGED m
    ELSE /\ m' = r.out
         /\ pc' = "clean_website"
         /\ UNCHANGED error

\* m = clean_prices(m_raw)
CleanMarlin ==
    /\ pc = "clean_marlin"
    /\ steps' = Append(steps, "clean_prices(m_raw)")
    /\ CleanedMarlin(clean_prices(m_raw))
    /\ UNCHANGED << marlin_file, website_file, m_raw, w_raw, meta_m, meta_w, w,
                    report_bytes, download, fn, args, ret >>

CleanedWebsite(r) ==
    IF r.raised # ""
    THEN Failed(r.raised) /\ UNCHANGED w
    ELSE /\ w' = r.out
         /\ pc' = "make_report"
         /\ UNCHANGED error

\* w = clean_prices(w_raw)
CleanWebsite ==
    /\ pc = "clean_website"
    /\ steps' = Append(steps, "clean_prices(w_raw)")
    /\ CleanedWebsite(clean_prices(w_raw))
    /\ UNCHANGED << marlin_file, website_file, m_raw, w_raw, meta_m, meta_w, m,
                    report_bytes, download, fn, args, ret >>

\* report_bytes = make_report(m, w, meta_m, meta_w, tolerance=0.01)
MakeReport ==
    /\ pc = "make_report"
    /\ steps' = Append(steps, "make_report(m, w, meta_m, meta_w)")
    /\ report_bytes' = << make_report(m, w, meta_m, meta_w, DEFAULT_TOLERANCE) >>
    /\ pc' = "offer"
    /\ UNCHANGED << marlin_file, website_file, m_raw, w_raw, meta_m, meta_w, m, w,
                    download, error, fn, args, ret >>

\* st.success, st.download_button(data=report_bytes) and the details expander
OfferDownload ==
    /\ pc = "offer"
    /\ download' = report_bytes
    /\ pc' = "idle"
    /\ UNCHANGED << marlin_file, website_file, steps, m_raw, w_raw, meta_m, meta_w,
                    m, w, report_bytes, error, fn, args, ret >>

\* any other interaction (a download button pressed): a run with run = False
Rerun ==
    /\ pc = "idle"
    /\ download # << >> \/ error # ""
    /\ Fresh
    /\ UNCHANGED << marlin_file, website_file, pc, fn, args, ret >>

Next ==
    \/ \E file \in Workbooks \cup { NoFile } : UploadMarlin(file)
    \/ \E file \in Workbooks \cup { NoFile } : UploadWebsite(file)
    \/ PressRun
    \/ DetectMarlin
    \/ DetectWebsite
    \/ CleanMarlin
    \/ CleanWebsite
    \/ MakeReport
    \/ OfferDownload
    \/ Rerun

Spec == Init /\ [][Next]_vars

-----------------------------------------------------------------------------
(* The functions on their own: `args` is drawn from a bounded set of       *)
(* inputs, `ret` is << >> until the function has returned and holds its    *)
(* results afterwards.  The script is not run.                             *)

MaxTextLen == 3
MaxColumns == 2
MaxSheets == 2
MaxRows == 2

\* every sequence over S of a length in lo .. hi
SeqsOf(S, lo, hi) == UNION { [ 1 .. k -> S ] : k \in lo .. hi }
\* those without a repeated element
Distinct(s) == \A i, j \in DOMAIN s : i # j => s[i] # s[j]

\* coerce_price: every text of price characters, a bracket and a currency
\* sign, the texts of the documented examples, and the missing cell
PriceAlphabet == { "1", "5", ".", "-", "(", ")", "$" }
CoerceInputs ==
    SeqsOf(PriceAlphabet, 0, MaxTextLen) \cup { T_Dollar, T_Paren, T_TwoDots, None }

InitCoerce == Idle /\ fn = "coerce_price" /\ args \in CoerceInputs /\ ret = << >>

ApplyCoercePrice ==
    /\ fn = "coerce_price" /\ ret = << >>
    /\ ret' = << coerce_price(args) >>
    /\ UNCHANGED << marlin_file, website_file, pc, steps, m_raw, w_raw, meta_m,
                    meta_w, m, w, report_bytes, download, error, fn, args >>

SpecCoerce == InitCoerce /\ [][ApplyCoercePrice]_vars

\* best_match_column: the column names of a sheet, for either field
H_Price == << "P", "r", "i", "c", "e" >>
H_PRICE == << "P", "R", "I", "C", "E" >>
MatchHeaders == { H_IncGST, H_ExcGST, H_Price, H_PRICE, H_Code, H_CODE, H_SKUPrice, H_Name }

Candidates(field) == IF field = "code" THEN CODE_CANDIDATES ELSE PRICE_CANDIDATES_PRIMARY
IncHints(field) == IF field = "code" THEN << >> ELSE INC_HINTS
ExcHints(field) == IF field = "code" THEN << >> ELSE EXC_HINTS

InitMatch ==
    /\ Idle
    /\ fn = "best_match_column"
    /\ args \in [ columns : { s \in SeqsOf(MatchHeaders, 0, MaxColumns) : Distinct(s) },
                  field   : { "code", "price" } ]
    /\ ret = << >>

ApplyBestMatchColumn ==
    /\ fn = "best_match_column" /\ ret = << >>
    /\ ret' = << best_match_column(args.columns, Candidates(args.field),
                                   IncHints(args.field), ExcHints(args.field)) >>
    /\ UNCHANGED << marlin_file, website_file, pc, steps, m_raw, w_raw, meta_m,
                    meta_w, m, w, report_bytes, download, error, fn, args >>

SpecMatch == InitMatch /\ [][ApplyBestMatchColumn]_vars

\* pick_sheet_and_columns: workbooks of differently named sheets
PriceOnlySheet == Sheet("Rates", << H_Qty, H_Price >>, << << T_2, T_10_00 >> >>)
PickSheets ==
    { MarlinSheet, WebsiteSheet, TemplatePrices, TemplateReadme, NamesSheet,
      CodeOnlySheet, PriceOnlySheet, SkuPriceSheet }

InitPick ==
    /\ Idle
    /\ fn = "pick_sheet_and_columns"
    /\ args \in { b \in SeqsOf(PickSheets, 1, MaxSheets) :
                    Distinct([ i \in DOMAIN b |-> b[i].name ]) }
    /\ ret = << >>

ApplyPickSheetAndColumns ==
    /\ fn = "pick_sheet_and_columns" /\ ret = << >>
    /\ ret' = << pick_sheet_and_columns(args) >>
    /\ UNCHANGED << marlin_file, website_file, pc, steps, m_raw, w_raw, meta_m,
                    meta_w, m, w, report_bytes, download, error, fn, args >>

SpecPick == InitPick /\ [][ApplyPickSheetAndColumns]_vars

\* clean_prices then make_report, on tables as pick_sheet_and_columns
\* returns them: two columns with the standard labels and at least one row
RowChoices ==
    { << T_A, T_1_00 >>, << T_A_sp, T_1_01 >>, << T_B, T_2 >>, << T_B, T_x >>,
      << None, T_2 >>, << T_A, None >> }
RawTable(rows) == [ name |-> "Sheet1", columns |-> << VARIANT_CODE, VARIANT_PRICE >>,
                    rows |-> rows ]
Tolerances == { [ n |-> 0, d |-> 1 ], DEFAULT_TOLERANCE }

\* the cleaned lists of the end-to-end scenario
ScenarioArgs ==
    [ website   |-> RawTable(<< << T_A1, T_10_00 >>, << T_A3, T_5_00 >> >>),
      marlin    |-> RawTable(<< << T_A1, T_10_00 >>, << T_A2, T_20_00 >> >>),
      tolerance |-> DEFAULT_TOLERANCE ]

InitReport ==
    /\ Idle
    /\ fn = "clean_prices"
    /\ \/ args \in [ website   : { RawTable(r) : r \in SeqsOf(RowChoices, 1, MaxRows) },
                     marlin    : { RawTable(r) : r \in SeqsOf(RowChoices, 1, MaxRows) },
                     tolerance : Tolerances ]
       \/ args = ScenarioArgs
    /\ ret = << >>

\* w = clean_prices(w_raw) and m = clean_prices(m_raw): ret = << w, m >>
ApplyCleanPrices ==
    /\ fn = "clean_prices" /\ ret = << >>
    /\ ret' = << clean_prices(args.website).out, clean_prices(args.marlin).out >>
    /\ fn' = "make_report"
    /\ UNCHANGED << marlin_file, website_file, pc, steps, m_raw, w_raw, meta_m,
                    meta_w, m, w, report_bytes, download, error, args >>

\* make_report(m, w, ..., tolerance): ret = << w, m, report >>
ApplyMakeReport ==
    /\ fn = "make_report" /\ Len(ret) = 2
    /\ ret' = Append(ret, make_report(ret[2], ret[1], NoMeta, NoMeta, args.tolerance))
    /\ UNCHANGED << marlin_file, website_file, pc, steps, m_raw, w_raw, meta_m,
                    meta_w, m, w, report_bytes, download, error, fn, args >>

NextReport == ApplyCleanPrices \/ ApplyMakeReport

SpecReport == InitReport /\ [][NextReport]_vars

-----------------------------------------------------------------------------
(* Properties of coerce_price (SpecCoerce).                                *)

\* what the description of coerce_price gives for a text s, read off s
\* itself: of the kept characters (digits, "." and "-") only the last "."
\* counts; the result is present exactly when s has a digit and no "-"
\* other than as the first of those characters; then it is the digits of s
\* as one number, scaled by the digits that follow the last "." of s,
\* negative when exactly one of a leading "-" and the bracket signal is there
C9_Expected(s) ==
    LET digits  == SelectSeq(s, IsDigit)
        bracket == "(" \in Range(s) /\ ")" \in Range(s)
        dots    == { i \in DOMAIN s : s[i] = "." }
        counted == { i \in DOMAIN s :
                        \/ IsDigit(s[i]) \/ s[i] = "-"
                        \/ s[i] = "." /\ i = SetMax(dots) }
        minus   == counted # { } /\ s[SetMin(counted)] = "-"
        after   == IF dots = { } THEN { }
                   ELSE { i \in DOMAIN s : i > SetMax(dots) /\ IsDigit(s[i]) }
    IN  IF digits = << >> \/ (\E i \in counted : i > SetMin(counted) /\ s[i] = "-")
        THEN NaN
        ELSE [ n |-> IF minus # bracket THEN - DigitsValue(digits) ELSE DigitsValue(digits),
               d |-> Pow10(Cardinality(after)) ]

\* C9: coerce_price returns for every cell (it never raises): absent for a
\* missing cell; for a text, after deleting every character that is not a
\* digit, "." or "-" and all but the last ".", absent when what remains is
\* not a number and otherwise that number, negated when the text has both
\* "(" and ")".  "$1,234.56" gives 1234.56, "(12.50)" gives -12.50,
\* "12.34.56" gives 1234.56, "" and a missing cell give absent.
C9_CoercePrice ==
    ret # << >> =>
        /\ IsNone(args) => ret[1] = NaN
        /\ ~ IsNone(args) => ret[1] = C9_Expected(args)
        /\ args = T_Dollar => ret[1] = [ n |-> 123456, d |-> 100 ]
        /\ args = T_Paren => ret[1] = [ n |-> -1250, d |-> 100 ]
        /\ args = T_TwoDots => ret[1] = [ n |-> 123456, d |-> 100 ]
        /\ args = << >> => ret[1] = NaN

C9_Witness ==
    ret # << >> /\ args = T_TwoDots /\ ret[1] = [ n |-> 123456, d |-> 100 ]

-----------------------------------------------------------------------------
(* Properties of best_match_column (SpecMatch).                            *)

C10_Score(c) ==
    ColumnScore(c, Candidates(args.field), IncHints(args.field), ExcHints(args.field))

\* C10: best_match_column returns the column of the highest score, the
\* first of them in input order, and no column when the list is empty or
\* the highest score is below 0.6.  For the price field "Variant Price Inc
\* GST" scores 2 + 0.4 * 24/30 + 0.25, strictly more than "Variant Price Exc
\* GST", and is the one selected when both are columns, in either order.
C10_BestMatchColumn ==
    ret # << >> =>
        LET r    == ret[1]
            cols == args.columns
        IN  /\ r = None <=> \A i \in DOMAIN cols : ~ ScoreAtLeastMin(C10_Score(cols[i]))
            /\ r # None =>
                 \E k \in DOMAIN cols :
                    /\ cols[k] = r
                    /\ \A i \in DOMAIN cols :
                         /\ ~ ScoreLess(C10_Score(r), C10_Score(cols[i]))
                         /\ i < k => ScoreLess(C10_Score(cols[i]), C10_Score(r))
            /\ (args.field = "price" /\ H_IncGST \in Range(cols)) =>
                 C10_Score(H_IncGST) = [ base |-> 225, fuzz |-> [ num |-> 24, den |-> 30 ] ]
            /\ (args.field = "price" /\ { H_IncGST, H_ExcGST } \subseteq Range(cols)) =>
                 /\ ScoreLess(C10_Score(H_ExcGST), C10_Score(H_IncGST))
                 /\ r = H_IncGST

C10_Witness ==
    /\ ret # << >>
    /\ args.field = "price"
    /\ args.columns = << H_ExcGST, H_IncGST >>
    /\ ret[1] = H_IncGST

-----------------------------------------------------------------------------
(* Properties of pick_sheet_and_columns (SpecPick).                        *)

\* the columns detected on a sheet taken alone
C5_Code(s) ==
    best_match_column(Project(s, KeptColumns(s)).columns, CODE_CANDIDATES, << >>, << >>)
C5_Price(s) ==
    best_match_column(Project(s, KeptColumns(s)).columns, PRICE_CANDIDATES_PRIMARY,
                      INC_HINTS, EXC_HINTS)
C5_HasCode(s) == ~ IsEmptySheet(s) /\ C5_Code(s) # None
C5_HasPrice(s) == ~ IsEmptySheet(s) /\ C5_Price(s) # None

\* C5: pick_sheet_and_columns returns exactly when some non-empty sheet has
\* both a detected code column and a detected price column, and then with
\* the first such sheet in workbook order; when no non-empty sheet has
\* either column it raises "Could not detect suitable columns in any
\* sheet."; when none has both and some has one it raises "Auto-detection
\* incomplete" for the first sheet with a column, naming the column found.
\* A workbook whose only sheet has the columns Name and Description raises
\* and yields no table.
C5_PickSheet ==
    ret # << >> =>
        LET book == args
            r    == ret[1]
            both == { i \in DOMAIN book : C5_HasCode(book[i]) /\ C5_HasPrice(book[i]) }
            some == { i \in DOMAIN book : C5_HasCode(book[i]) \/ C5_HasPrice(book[i]) }
        IN  /\ r.raised = "" <=> both # { }
            /\ both # { } =>
                 /\ r.meta = [ sheet     |-> book[SetMin(both)].name,
                               code_col  |-> C5_Code(book[SetMin(both)]),
                               price_col |-> C5_Price(book[SetMin(both)]) ]
                 /\ r.sub.name = book[SetMin(both)].name
                 /\ Len(r.sub.rows) = Len(book[SetMin(both)].rows)
            /\ some = { } =>
                 r.raised = "Could not detect suitable columns in any sheet."
            /\ (both = { } /\ some # { }) =>
                 /\ r.raised = "Auto-detection incomplete in sheet"
                 /\ r.meta = [ sheet     |-> book[SetMin(some)].name,
                               code_col  |-> C5_Code(book[SetMin(some)]),
                               price_col |-> C5_Price(book[SetMin(some)]) ]
            /\ r.raised # "" => r.sub = NoTable
            /\ book = << NamesSheet >> => r.raised # ""

C5_Witness ==
    /\ ret # << >>
    /\ args = << WebsiteSheet, MarlinSheet >>
    /\ ret[1].raised = ""
    /\ ret[1].meta.sheet = "Export"

\* C6: whenever pick_sheet_and_columns returns, the table has exactly two
\* columns, one named "Variant Code" and one named "Variant Price", taken
\* from two different columns of the winning sheet.
C6_TwoDistinctColumns ==
    (ret # << >> /\ ret[1].raised = "") =>
        /\ Len(ret[1].sub.columns) = 2
        /\ Cardinality({ k \in DOMAIN ret[1].sub.columns :
                           ret[1].sub.columns[k] = VARIANT_CODE }) = 1
        /\ Cardinality({ k \in DOMAIN ret[1].sub.columns :
                           ret[1].sub.columns[k] = VARIANT_PRICE }) = 1
        /\ ret[1].meta.code_col # ret[1].meta.price_col

-----------------------------------------------------------------------------
(* Properties of clean_prices and make_report (SpecReport).  After         *)
(* clean_prices ret[1] is the cleaned website table and ret[2] the cleaned *)
(* marlin table; after make_report ret[3] is the report.  The code is the  *)
(* first and the price the second column of these tables.                  *)

CodesOf(df) == { df.rows[i][1] : i \in DOMAIN df.rows }

\* C1: in every row of the merged table, Price Match is "N/A" exactly when
\* the website or the marlin price is absent, and Comparison agrees with
\* Price Match: "Equal (within tolerance)" with "Match", "Website higher"
\* and "Marlin higher" with "Mismatch", "Only in Website", "Only in Marlin"
\* and "Missing in both" with "N/A".
C1_MatchAndLabelAgree ==
    Len(ret) = 3 =>
        \A i \in DOMAIN ret[3].full_data :
            LET r == ret[3].full_data[i]
            IN  /\ r.price_match = "N/A" <=> (isna(r.website) \/ isna(r.marlin))
                /\ r.comparison = "Equal (within tolerance)" <=> r.price_match = "Match"
                /\ r.comparison \in { "Website higher", "Marlin higher" }
                     <=> r.price_match = "Mismatch"
                /\ r.comparison \in { "Only in Website", "Only in Marlin", "Missing in both" }
                     <=> r.price_match = "N/A"

\* a difference equal to the tolerance, and not zero
C1_Witness ==
    /\ Len(ret) = 3
    /\ \E i \in DOMAIN ret[3].full_data :
          /\ ret[3].full_data[i].price_match = "Match"
          /\ ret[3].full_data[i].difference.n # 0

\* C2: the merged table of two cleaned tables has every code of either
\* table exactly once and no other code, and the website and marlin price
\* of a row are the prices of its code in the cleaned tables, absent for a
\* code the table does not have.
C2_FullOuterJoin ==
    Len(ret) = 3 =>
        LET cw   == ret[1]
            cm   == ret[2]
            full == ret[3].full_data
        IN  /\ \A k \in CodesOf(cw) \cup CodesOf(cm) :
                 Cardinality({ i \in DOMAIN full : full[i].code = k }) = 1
            /\ \A i \in DOMAIN full :
                 /\ full[i].code \in CodesOf(cw) \cup CodesOf(cm)
                 /\ IF full[i].code \in CodesOf(cw)
                    THEN \A j \in DOMAIN cw.rows :
                            cw.rows[j][1] = full[i].code => full[i].website = cw.rows[j][2]
                    ELSE full[i].website = NaN
                 /\ IF full[i].code \in CodesOf(cm)
                    THEN \A j \in DOMAIN cm.rows :
                            cm.rows[j][1] = full[i].code => full[i].marlin = cm.rows[j][2]
                    ELSE full[i].marlin = NaN

C2_Witness ==
    /\ Len(ret) = 3
    /\ args = ScenarioArgs
    /\ Len(ret[3].full_data) = 3
    /\ ret[3].full_data[2].code = T_A2
    /\ ret[3].full_data[2].website = NaN

\* C3: a code of the cleaned website table that the cleaned marlin table
\* does not have gives a merged row with Comparison "Only in Website" and
\* Price Match "N/A", whatever the tolerance and the website price cell.
C3_OnlyInWebsite ==
    Len(ret) = 3 =>
        \A k \in CodesOf(ret[1]) \ CodesOf(ret[2]) :
            /\ \E i \in DOMAIN ret[3].full_data : ret[3].full_data[i].code = k
            /\ \A i \in DOMAIN ret[3].full_data :
                 ret[3].full_data[i].code = k =>
                    /\ ret[3].full_data[i].comparison = "Only in Website"
                    /\ ret[3].full_data[i].price_match = "N/A"

\* the input rows whose code cell is there and trims to the code k
C4_RowsOf(df, k) ==
    { i \in DOMAIN df.rows : ~ IsNone(df.rows[i][1]) /\ Strip(df.rows[i][1]) = k }

C4_Cleaned(in, out) ==
    /\ \A i, j \in DOMAIN out.rows : i # j => out.rows[i][1] # out.rows[j][1]
    /\ \A i \in DOMAIN in.rows :
         ~ IsNone(in.rows[i][1]) => Strip(in.rows[i][1]) \in CodesOf(out)
    /\ \A i \in DOMAIN out.rows :
         /\ C4_RowsOf(in, out.rows[i][1]) # { }
         /\ out.rows[i][2] = coerce_price(in.rows[SetMax(C4_RowsOf(in, out.rows[i][1]))][2])

\* C4: the table clean_prices returns has pairwise distinct trimmed codes,
\* has for each code the price of the last input row with that code, and
\* has no row for an input row whose code cell is missing.
C4_CleanPrices ==
    Len(ret) >= 2 => C4_Cleaned(args.website, ret[1]) /\ C4_Cleaned(args.marlin, ret[2])

C8_Views == { "matched", "mismatched", "only_in_website", "only_in_marlin" }
\* in how many of the four views a row is
C8_InViews(report, r) ==
    Cardinality({ v \in C8_Views : r \in Range(report[v]) })
C8_Counts(report) ==
    report.summary.matches + report.summary.mismatches
    + report.summary.only_in_website + report.summary.only_in_marlin

\* C8 as stated: every row of Full Data is in exactly one of Matched,
\* Mismatched, Only in Website and Only in Marlin, and the four counts of
\* the Summary add up to the rows of Full Data.
C8_ViewsPartition ==
    Len(ret) = 3 =>
        /\ \A i \in DOMAIN ret[3].full_data :
             C8_InViews(ret[3], ret[3].full_data[i]) = 1
        /\ C8_Counts(ret[3]) = Len(ret[3].full_data)

\* C8 as amended: every row of Full Data is in at most one of the four
\* views, and in exactly one unless its Comparison is "Missing in both";
\* the four counts add up to the rows of Full Data less the "Missing in
\* both" rows.  The scenario gives 1, 0, 1, 1 for 3 merged rows.
C8_ViewsPartitionButMissing ==
    Len(ret) = 3 =>
        LET report  == ret[3]
            missing == { i \in DOMAIN report.full_data :
                           report.full_data[i].comparison = "Missing in both" }
        IN  /\ \A i \in DOMAIN report.full_data :
                 C8_InViews(report, report.full_data[i]) = IF i \in missing THEN 0 ELSE 1
            /\ \A v \in C8_Views : Range(report[v]) \subseteq Range(report.full_data)
            /\ report.summary.matches = Len(report.matched)
            /\ report.summary.mismatches = Len(report.mismatched)
            /\ report.summary.only_in_website = Len(report.only_in_website)
            /\ report.summary.only_in_marlin = Len(report.only_in_marlin)
            /\ C8_Counts(report) = Len(report.full_data) - Cardinality(missing)
            /\ args = ScenarioArgs =>
                 /\ Len(report.full_data) = 3
                 /\ report.summary.matches = 1 /\ report.summary.mismatches = 0
                 /\ report.summary.only_in_website = 1
                 /\ report.summary.only_in_marlin = 1

\* a code of both lists with no price in either, beside a row in a view
C8_Witness ==
    /\ Len(ret) = 3
    /\ \E i \in DOMAIN ret[3].full_data :
          /\ ret[3].full_data[i].comparison = "Missing in both"
          /\ ret[3].full_data[i].code \in CodesOf(ret[1]) \cap CodesOf(ret[2])
    /\ ret[3].summary.only_in_marlin = 1

-----------------------------------------------------------------------------
(* Properties of a comparison run (Spec).                                  *)

PIPELINE ==
    << "pick_sheet_and_columns(marlin_file)", "pick_sheet_and_columns(website_file)",
       "clean_prices(m_raw)", "clean_prices(w_raw)", "make_report(m, w, meta_m, meta_w)" >>

IsPrefix(s, u) == Len(s) <= Len(u) /\ s = SubSeq(u, 1, Len(s))

\* C7: a run makes its calls in the order detect Marlin, detect Website,
\* clean Marlin, clean Website, make_report; the report is offered for
\* download only when all five returned, and then no error is shown; a run
\* that ended before the fifth call shows the error and offers nothing; and
\* with a file missing no call is made.
C7_RunOrder ==
    /\ IsPrefix(steps, PIPELINE)
    /\ download # << >> =>
         /\ steps = PIPELINE
         /\ report_bytes # << >> /\ download = report_bytes
         /\ error = ""
    /\ error # "" => download = << >>
    /\ (pc = "idle" /\ steps # << >> /\ steps # PIPELINE) =>
         (error # "" /\ download = << >> /\ report_bytes = << >>)
    /\ (marlin_file = NoFile \/ website_file = NoFile) =>
         (steps = << >> /\ download = << >> /\ pc = "idle")

C7_Witness ==
    /\ pc = "idle"
    /\ steps = PIPELINE
    /\ download # << >>
    /\ download[1].summary.matches = 1

=============================================================================
